---- MODULE Spec2Model ----
(***************************************************************************)
(* Model of the quiz game's round / progress engine:                       *)
(*   src/screens/game.py  (GameScreen: navigation levels, round selector,  *)
(*                         in-memory progress store, retry timer)          *)
(*   src/screens/menu.py, src/screens/settings.py, src/main.py             *)
(*                        (screen changes, event consumption)              *)
(*                                                                         *)
(* A country name is an integer (names are unique keys of data.COUNTRIES):  *)
(* row i of the catalog file of the k-th language code holds the name      *)
(* 10 * (k - 1) + i, so that no name belongs to two languages.             *)
(* A progress key, built in the code by '|'.join(parts), is the sequence   *)
(* of its parts.                                                           *)
(***************************************************************************)
EXTENDS Integers, Sequences, FiniteSets, TLC

\* ------------------------------------------------------------------ bounds
NumCountries == 3
NumContinents == 1
NumLanguages == 2
\* a session is followed for at most MaxEvents input / timer events
MaxEvents == 10
\* a fair session has at most MaxRoundEvents navigation / skip events
MaxRoundEvents == 5
\* the longest short name and answer of the match engine's inputs
MaxNameLen == 2
\* the longest text normalize_text is applied to
MaxTextLen == 4

\* Python's None: "None" in a string-valued field, NoCountry in a field that
\* holds a country or a capital
None == "None"
NoCountry == 0
\* chrono_start = None
NoStart == -1
\* pygame.time.get_ticks() is read in units of half a second, so that a whole
\* second ("/ 1000" on the ticks) is TicksPerSecond units
TicksPerSecond == 2
\* the continent tags of the catalog (data.COUNTRIES_BY_CONTINENT.keys())
ContinentNames == <<"Africa", "America", "Asia", "Europe">>
Continents == {ContinentNames[i] : i \in 1..NumContinents}
\* the language codes offered by the menu's dropdown (keys of data.LANG_FILES)
LanguageCodes == <<"ES", "EN", "PT", "DE", "IT">>
Languages == {LanguageCodes[i] : i \in 1..NumLanguages}

\* the name column of row i of the catalog file of the k-th language code
NameIn(k, i) == 10 * (k - 1) + i
\* Country.continent of a catalog row: the same for every name of a country
ContinentOf(c) == ContinentNames[(((c % 10) - 1) % NumContinents) + 1]
\* Country.capital of a catalog row (capitals are distinct from names)
CapitalOf(c) == 100 + c

RECURSIVE FilterSeq(_, _)
FilterSeq(s, cont) ==
    IF s = <<>> THEN <<>>
    ELSE IF ContinentOf(Head(s)) = cont
         THEN <<Head(s)>> \o FilterSeq(Tail(s), cont)
         ELSE FilterSeq(Tail(s), cont)

Range(s) == {s[i] : i \in DOMAIN s}

\* ------------------------------------------------------------------ texts
\* A text (a Python str) is the sequence of its characters.  A character is
\* written as a one-character string, except: a' e' i' o' u' (acute accent),
\* u: o: (diaeresis), n~ (tilde), the same with a capital letter, eszett
\* (U+00DF), tab, nl and nbsp (U+00A0).
Lower26 == <<"a", "b", "c", "d", "e", "f", "g", "h", "i", "j", "k", "l", "m",
             "n", "o", "p", "q", "r", "s", "t", "u", "v", "w", "x", "y", "z">>
Upper26 == <<"A", "B", "C", "D", "E", "F", "G", "H", "I", "J", "K", "L", "M",
             "N", "O", "P", "Q", "R", "S", "T", "U", "V", "W", "X", "Y", "Z">>
AccentLower == <<"a'", "e'", "i'", "o'", "u'", "u:", "n~", "o:">>
AccentUpper == <<"A'", "E'", "I'", "O'", "U'", "U:", "N~", "O:">>
AccentBase == <<"a", "e", "i", "o", "u", "u", "n", "o">>
Digits == {"0", "1", "2", "3", "4", "5", "6", "7", "8", "9"}
\* the ASCII characters str.split() and the regex class \s treat as whitespace
Whitespace == {" ", "tab", "nl"}

IndexIn(seq, c) == CHOOSE i \in DOMAIN seq : seq[i] = c

\* str.lower() on one character
lower_char(c) ==
    IF c \in Range(Upper26) THEN Lower26[IndexIn(Upper26, c)]
    ELSE IF c \in Range(AccentUpper) THEN AccentLower[IndexIn(AccentUpper, c)]
    ELSE c

\* unicodedata.normalize('NFKD', c).encode('ASCII', 'ignore').decode('ASCII')
\* on one character: the ASCII characters of its compatibility decomposition
nfkd_ascii(c) ==
    IF c \in Range(AccentLower) THEN <<AccentBase[IndexIn(AccentLower, c)]>>
    ELSE IF c \in Range(AccentUpper)
    THEN <<Upper26[IndexIn(Lower26, AccentBase[IndexIn(AccentUpper, c)])]>>
    ELSE IF c = "nbsp" THEN <<" ">>
    ELSE IF c = "eszett" THEN <<>>
    ELSE <<c>>

\* re.sub(r'[^a-z0-9\s]', '', text) keeps exactly these characters
kept_char(c) == c \in Range(Lower26) \cup Digits \cup Whitespace

RECURSIVE lower(_)
lower(text) ==
    IF text = <<>> THEN <<>>
    ELSE <<lower_char(Head(text))>> \o lower(Tail(text))

RECURSIVE strip_accents(_)
strip_accents(text) ==
    IF text = <<>> THEN <<>>
    ELSE nfkd_ascii(Head(text)) \o strip_accents(Tail(text))

RECURSIVE remove_special(_)
remove_special(text) ==
    IF text = <<>> THEN <<>>
    ELSE (IF kept_char(Head(text)) THEN <<Head(text)>> ELSE <<>>)
         \o remove_special(Tail(text))

\* text.split(): the words of text; word is the word being read
RECURSIVE split(_, _)
split(text, word) ==
    IF text = <<>> THEN (IF word = <<>> THEN <<>> ELSE <<word>>)
    ELSE IF Head(text) \in Whitespace
    THEN (IF word = <<>> THEN <<>> ELSE <<word>>) \o split(Tail(text), <<>>)
    ELSE split(Tail(text), Append(word, Head(text)))

\* ' '.join(words)
RECURSIVE join(_)
join(words) ==
    IF words = <<>> THEN <<>>
    ELSE IF Len(words) = 1 THEN Head(words)
    ELSE Head(words) \o <<" ">> \o join(Tail(words))

\* normalize_text without the collapsing of whitespace
normalize_text_NoCollapse(text) ==
    remove_special(strip_accents(lower(text)))

\* text_utils.normalize_text
normalize_text(text) ==
    join(split(remove_special(strip_accents(lower(text))), <<>>))

\* str.replace(' ', '')
RECURSIVE remove_spaces(_)
remove_spaces(text) ==
    IF text = <<>> THEN <<>>
    ELSE (IF Head(text) = " " THEN <<>> ELSE <<Head(text)>>)
         \o remove_spaces(Tail(text))

\* are_strings_similar that also accepts a text one character short
are_strings_similar_Fuzzy(str1, str2, max_distance) ==
    LET norm1 == normalize_text(str1)
        norm2 == normalize_text(str2)
    IN \/ norm1 = norm2
       \/ remove_spaces(norm1) = remove_spaces(norm2)
       \/ /\ max_distance > 0 /\ Len(norm2) > 0
          /\ norm1 = SubSeq(norm2, 1, Len(norm2) - 1)

\* text_utils.are_strings_similar
are_strings_similar(str1, str2, max_distance) ==
    LET norm1 == normalize_text(str1)
        norm2 == normalize_text(str2)
    IN IF norm1 = norm2 THEN TRUE
       ELSE IF remove_spaces(norm1) = remove_spaces(norm2) THEN TRUE
       ELSE FALSE

\* the entries of LANGUAGE_ALIASES in Country.check_name_match for the ISO
\* codes of the sample rows (CatalogRows); other codes and languages: none
LANGUAGE_ALIASES(lang, iso_code) ==
    IF lang = "EN" /\ iso_code = "GB"
    THEN {<<"u", "k">>, <<"u", "n", "i", "t", "e", "d", " ", "k", "i", "n", "g", "d", "o", "m">>}
    ELSE IF lang = "EN" /\ iso_code = "US"
    THEN {<<"u", "s", "a">>, <<"u", "n", "i", "t", "e", "d", " ", "s", "t", "a", "t", "e", "s">>, <<"u", "n", "i", "t", "e", "d", " ", "s", "t", "a", "t", "e", "s", " ", "o", "f", " ", "a", "m", "e", "r", "i", "c", "a">>}
    ELSE IF lang = "EN" /\ iso_code = "LA"
    THEN {<<"l", "a", "o", "s">>}
    ELSE IF lang = "ES" /\ iso_code = "US"
    THEN {<<"e", "s", "t", "a", "d", "o", "s", " ", "u", "n", "i", "d", "o", "s">>, <<"e", "e", "u", "u">>}
    ELSE {}

\* spanish_phrases of Country.check_name_match
spanish_phrases ==
    {<<"e", "s", "t", "a", "d", "o", "s", " ", "u", "n", "i", "d", "o", "s">>, <<"r", "e", "i", "n", "o", " ", "u", "n", "i", "d", "o">>, <<"c", "o", "r", "e", "a", " ", "d", "e", "l", " ", "s", "u", "r">>, <<"c", "o", "r", "e", "a", " ", "d", "e", "l", " ", "n", "o", "r", "t", "e">>, <<"e", "s", "p", "a", "n~", "a">>}

\* the ES-only exceptions of Country.check_name_match for the names of the
\* sample rows
spanish_exceptions(name) ==
    IF name = <<"B", "o", "l", "i", "v", "i", "a">>
    THEN {<<"l", "a", " ", "p", "a", "z">>, <<"s", "u", "c", "r", "e">>}
    ELSE IF name = <<"E", "s", "t", "a", "d", "o", "s", " ", "U", "n", "i", "d", "o", "s">>
    THEN {<<"w", "a", "s", "h", "i", "n", "g", "t", "o", "n">>, <<"w", "a", "s", "h", "i", "n", "g", "t", "o", "n", " ", "d", "c">>, <<"w", "a", "s", "h", "i", "n", "g", "t", "o", "n", " ", "d", " ", "c">>}
    ELSE {}

\* data._abbreviations_for, for the names of the sample rows
abbreviations_for(name, lang) ==
    IF lang # "ES" THEN {}
    ELSE IF name = <<"E", "s", "t", "a", "d", "o", "s", " ", "U", "n", "i", "d", "o", "s">>
    THEN {<<"u", "s", "a">>, <<"e", "e", "u", "u">>}
    ELSE IF name = <<"R", "e", "i", "n", "o", " ", "U", "n", "i", "d", "o">>
    THEN {<<"u", "k">>, <<"r", "u">>}
    ELSE IF name = <<"C", "o", "s", "t", "a", " ", "R", "i", "c", "a">>
    THEN {<<"c", "r">>}
    ELSE {}

\* Country(name, capital, continent, iso_code, abbrs) as built by
\* load_countries_for_language while CURRENT_LANGUAGE is lang
Country(row, lang) ==
    [name |-> row.name, capital |-> row.capital, iso_code |-> row.iso_code,
     abbreviations |-> abbreviations_for(row.name, lang)]

\* any(c in answer.lower() for c in 'áéíóúüñ')
has_spanish_accents(answer) ==
    \E i \in DOMAIN answer :
       lower_char(answer[i]) \in {"a'", "e'", "i'", "o'", "u'", "u:", "n~"}

\* check_name_match that consults the alias table of EN whatever the language
check_name_match_EnAliases(self, answer, lang) ==
    \/ are_strings_similar(answer, self.name, 2)
    \/ remove_spaces(normalize_text(answer)) \in
          {remove_spaces(normalize_text(a)) :
              a \in LANGUAGE_ALIASES("EN", self.iso_code)}
    \/ \E abbr \in self.abbreviations :
          remove_spaces(normalize_text(abbr))
             = remove_spaces(normalize_text(answer))

\* check_name_match without the rejection of accented answers under EN
check_name_match_NoAccentGuard(self, answer, lang) ==
    \/ are_strings_similar(answer, self.name, 2)
    \/ remove_spaces(normalize_text(answer)) \in
          {remove_spaces(normalize_text(a)) :
              a \in LANGUAGE_ALIASES(lang, self.iso_code)}
    \/ /\ lang = "ES"
       /\ normalize_text(answer) \in spanish_exceptions(self.name)
    \/ /\ ~(lang = "EN" /\ normalize_text(answer) \in spanish_phrases)
       /\ \E abbr \in self.abbreviations :
             remove_spaces(normalize_text(abbr))
                = remove_spaces(normalize_text(answer))

\* check_name_match with the block-list tested before the name
check_name_match_BlockFirst(self, answer, lang) ==
    IF lang = "EN" /\ has_spanish_accents(answer) THEN FALSE
    ELSE IF lang = "EN" /\ normalize_text(answer) \in spanish_phrases
    THEN FALSE
    ELSE \/ are_strings_similar(answer, self.name, 2)
         \/ remove_spaces(normalize_text(answer)) \in
               {remove_spaces(normalize_text(a)) :
                   a \in LANGUAGE_ALIASES(lang, self.iso_code)}
         \/ /\ lang = "ES"
            /\ normalize_text(answer) \in spanish_exceptions(self.name)
         \/ \E abbr \in self.abbreviations :
               remove_spaces(normalize_text(abbr))
                  = remove_spaces(normalize_text(answer))

\* Country.check_name_match(answer) while data.CURRENT_LANGUAGE is lang
check_name_match(self, answer, lang) ==
    LET answer_norm == normalize_text(answer)
        a_low == answer_norm
        norm_aliases == {remove_spaces(normalize_text(a)) :
                            a \in LANGUAGE_ALIASES(lang, self.iso_code)}
    IN IF lang = "EN" /\ has_spanish_accents(answer) THEN FALSE
       ELSE IF are_strings_similar(answer, self.name, 2) THEN TRUE
       ELSE IF remove_spaces(a_low) \in norm_aliases THEN TRUE
       ELSE IF lang = "EN" /\ a_low \in spanish_phrases THEN FALSE
       ELSE IF lang = "ES" /\ a_low \in spanish_exceptions(self.name) THEN TRUE
       ELSE IF \E abbr \in self.abbreviations :
                  \/ normalize_text(abbr) = answer_norm
                  \/ remove_spaces(normalize_text(abbr))
                        = remove_spaces(answer_norm)
       THEN TRUE
       ELSE FALSE

\* a handler's local country_obj before any country is looked up
NoCountryObj ==
    [name |-> <<>>, capital |-> <<>>, iso_code |-> "", abbreviations |-> {}]

\* the default of are_strings_similar's parameter max_distance
DefaultMaxDistance == 2

\* no call of the match engine made yet
NoCall ==
    [fn |-> "none", max_distance |-> DefaultMaxDistance, matched |-> FALSE,
     normalized |-> <<>>]

VARIABLES
    screen,               \* Game.current_screen: "menu" | "settings" | "game"
    region_mode,          \* None | "global" | "continente"
    selected_continent,   \* None | a continent
    game_mode,            \* None | "flags" | "capitals"
    quiz_type,            \* None | "country" | "capital"
    current_country,      \* NoCountry | a country
    current_capital,      \* NoCountry | a capital
    countries_left,       \* list of countries (the pool)
    failed_countries,     \* list of countries (the failed pool)
    score,
    total_countries,
    round_phase,          \* "full" | "retry"
    chrono_running,
    message,              \* key of the message last shown ("" = none)
    PERSISTENT_PROGRESS,  \* class-level dict: key -> snapshot
    timer,                \* TRUE while pygame's USEREVENT+1 timer is armed
    language,             \* the active UI language (i18n.current_language())
    now,                  \* pygame.time.get_ticks(), in units of 1/TicksPerSecond s
    chrono_start,         \* NoStart | the ticks the stopwatch counts from
    chrono_elapsed,       \* whole seconds shown by the stopwatch
    CURRENT_LANGUAGE,     \* data.CURRENT_LANGUAGE: the language of the catalog
    COUNTRIES,            \* data.COUNTRIES.keys(): the names, in file order
    CAPITALS,             \* data.CAPITALS: capital -> name
    COUNTRIES_BY_CONTINENT, \* data.COUNTRIES_BY_CONTINENT: continent -> names
    missing_files,        \* the language codes whose catalog file is absent
    country_obj,          \* the Country an answer is checked against
    input_text,           \* the text typed by the player
    call,                 \* the last call of the match engine and its result
    events                \* number of events handled so far (bounded by MaxEvents)

vars == <<screen, region_mode, selected_continent, game_mode, quiz_type,
          current_country, current_capital, countries_left, failed_countries,
          score, total_countries, round_phase, chrono_running, message,
          PERSISTENT_PROGRESS, timer, language, now, chrono_start,
          chrono_elapsed, CURRENT_LANGUAGE, COUNTRIES, CAPITALS,
          COUNTRIES_BY_CONTINENT, missing_files, country_obj, input_text,
          call, events>>

\* The whole program state as one record, so that a handler is a function
\* from state to state and handlers compose the way the calls do.
St == [screen |-> screen, region_mode |-> region_mode,
       selected_continent |-> selected_continent, game_mode |-> game_mode,
       quiz_type |-> quiz_type, current_country |-> current_country,
       current_capital |-> current_capital, countries_left |-> countries_left,
       failed_countries |-> failed_countries, score |-> score,
       total_countries |-> total_countries, round_phase |-> round_phase,
       chrono_running |-> chrono_running, message |-> message,
       PERSISTENT_PROGRESS |-> PERSISTENT_PROGRESS, timer |-> timer,
       language |-> language, now |-> now, chrono_start |-> chrono_start,
       chrono_elapsed |-> chrono_elapsed,
       CURRENT_LANGUAGE |-> CURRENT_LANGUAGE, COUNTRIES |-> COUNTRIES,
       CAPITALS |-> CAPITALS,
       COUNTRIES_BY_CONTINENT |-> COUNTRIES_BY_CONTINENT,
       missing_files |-> missing_files]

AssignState(s) ==
    /\ screen' = s.screen
    /\ region_mode' = s.region_mode
    /\ selected_continent' = s.selected_continent
    /\ game_mode' = s.game_mode
    /\ quiz_type' = s.quiz_type
    /\ current_country' = s.current_country
    /\ current_capital' = s.current_capital
    /\ countries_left' = s.countries_left
    /\ failed_countries' = s.failed_countries
    /\ score' = s.score
    /\ total_countries' = s.total_countries
    /\ round_phase' = s.round_phase
    /\ chrono_running' = s.chrono_running
    /\ message' = s.message
    /\ PERSISTENT_PROGRESS' = s.PERSISTENT_PROGRESS
    /\ timer' = s.timer
    /\ language' = s.language
    /\ now' = s.now
    /\ chrono_start' = s.chrono_start
    /\ chrono_elapsed' = s.chrono_elapsed
    /\ CURRENT_LANGUAGE' = s.CURRENT_LANGUAGE
    /\ COUNTRIES' = s.COUNTRIES
    /\ CAPITALS' = s.CAPITALS
    /\ COUNTRIES_BY_CONTINENT' = s.COUNTRIES_BY_CONTINENT
    /\ missing_files' = s.missing_files
    /\ UNCHANGED <<country_obj, input_text, call>>

\* a handled event: the state becomes s and the event is counted
Assign(s) ==
    /\ AssignState(s)
    /\ events' = events + 1

\* ---------------------------------------------------------------- catalog
\* data.COUNTRIES.keys(): the catalog of the active language, in file order
CatalogList == COUNTRIES

\* the keys of data.LANG_FILES
LANG_FILES == Range(LanguageCodes)

\* the name column of the rows csv.reader yields for the file of lang
FileRows(lang) ==
    [i \in 1..NumCountries |-> NameIn(IndexIn(LanguageCodes, lang), i)]

\* the catalog built from the names read: COUNTRIES and the two indices
\* derived from it at the end of load_countries_for_language
BuildCatalog(s, lang, names) ==
    [s EXCEPT !.CURRENT_LANGUAGE = lang,
              !.COUNTRIES = names,
              !.CAPITALS =
                  [cap \in {CapitalOf(n) : n \in Range(names)} |->
                       CHOOSE n \in Range(names) : CapitalOf(n) = cap],
              !.COUNTRIES_BY_CONTINENT =
                  [cont \in {ContinentOf(n) : n \in Range(names)} |->
                       FilterSeq(names, cont)]]

\* load_countries_for_language without the reset of COUNTRIES: a missing file
\* leaves the names loaded before
load_countries_for_language_NoReset(s, code) ==
    LET lang == IF code \in LANG_FILES THEN code ELSE "ES"
    IN [raised |-> lang \notin LANG_FILES,
        st |-> IF lang \in LANG_FILES
               THEN BuildCatalog(s, lang,
                                 IF lang \in s.missing_files THEN s.COUNTRIES
                                 ELSE FileRows(lang))
               ELSE s]

\* data.load_countries_for_language(code): raised tells whether the call ends
\* in an exception (the KeyError of LANG_FILES[lang]; FileNotFoundError is
\* caught), st is the state it leaves
load_countries_for_language(s, code) ==
    LET lang == IF code \in LANG_FILES THEN code ELSE "ES"
    IN [raised |-> lang \notin LANG_FILES,
        st |-> IF lang \in LANG_FILES
               THEN BuildCatalog(s, lang,
                                 IF lang \in s.missing_files THEN <<>>
                                 ELSE FileRows(lang))
               ELSE s]

\* data.set_language
set_language(s, lang) == load_countries_for_language(s, lang).st

\* data.get_countries_in_continent: COUNTRIES_BY_CONTINENT.get(continent, [])
get_countries_in_continent(s, cont) ==
    IF cont \in DOMAIN s.COUNTRIES_BY_CONTINENT
    THEN s.COUNTRIES_BY_CONTINENT[cont]
    ELSE <<>>

\* data.get_all_continents
get_all_continents(s) == DOMAIN s.COUNTRIES_BY_CONTINENT

\* the catalog variables after load_countries_for_language(lang) with the
\* catalog files of missing absent
CatalogLoaded(lang, missing) ==
    LET l == load_countries_for_language(
                 [CURRENT_LANGUAGE |-> "ES", COUNTRIES |-> <<>>,
                  CAPITALS |-> <<>>, COUNTRIES_BY_CONTINENT |-> <<>>,
                  missing_files |-> missing], lang).st
    IN /\ missing_files = missing
       /\ CURRENT_LANGUAGE = l.CURRENT_LANGUAGE
       /\ COUNTRIES = l.COUNTRIES
       /\ CAPITALS = l.CAPITALS
       /\ COUNTRIES_BY_CONTINENT = l.COUNTRIES_BY_CONTINENT

\* GameScreen.__init__ / _init_game_state: the fields of a fresh GameScreen
GameScreenInit(s) ==
    [s EXCEPT !.region_mode = None, !.selected_continent = None,
              !.game_mode = None, !.quiz_type = None,
              !.current_country = NoCountry, !.current_capital = NoCountry,
              !.countries_left = <<>>, !.failed_countries = <<>>,
              !.score = 0, !.total_countries = 0, !.round_phase = "full",
              !.chrono_running = FALSE, !.message = "",
              !.chrono_start = NoStart, !.chrono_elapsed = 0]

\* GameScreen.show_message (the key of the text shown)
show_message(s, text) == [s EXCEPT !.message = text]

\* GameScreen._progress_key: None (<<>>) or the parts joined by '|'
progress_key(s) ==
    IF s.game_mode = None THEN <<>>
    ELSE <<(IF s.region_mode = None THEN "global" ELSE s.region_mode)>>
         \o (IF s.region_mode = "continente"
             THEN <<(IF s.selected_continent = None THEN ""
                     ELSE s.selected_continent)>>
             ELSE <<>>)
         \o <<s.game_mode>>
         \o (IF s.game_mode = "capitals"
             THEN <<(IF s.quiz_type = None THEN "" ELSE s.quiz_type)>>
             ELSE <<>>)

\* the dict stored by _save_progress
Snapshot(s) ==
    [countries_left |-> s.countries_left,
     failed_countries |-> s.failed_countries,
     score |-> s.score,
     total |-> s.total_countries,
     current_country |-> s.current_country,
     current_capital |-> s.current_capital,
     chrono_elapsed |-> s.chrono_elapsed,
     chrono_running |-> s.chrono_running,
     round_phase |-> s.round_phase]

\* _save_progress without the guard on score and phase
save_progress_Always(s) ==
    LET key == progress_key(s) IN
    IF key = <<>> \/ s.total_countries = 0 THEN s
    ELSE [s EXCEPT !.PERSISTENT_PROGRESS =
              [k \in (DOMAIN s.PERSISTENT_PROGRESS) \cup {key} |->
                  IF k = key THEN Snapshot(s) ELSE s.PERSISTENT_PROGRESS[k]]]

\* _save_progress whose guard lets a score of 0 through in the FULL pass
save_progress_ZeroScore(s) ==
    LET key == progress_key(s) IN
    IF key = <<>> \/ s.total_countries = 0 THEN s
    ELSE IF s.score < 0 /\ s.round_phase # "retry" THEN s
    ELSE [s EXCEPT !.PERSISTENT_PROGRESS =
              [k \in (DOMAIN s.PERSISTENT_PROGRESS) \cup {key} |->
                  IF k = key THEN Snapshot(s) ELSE s.PERSISTENT_PROGRESS[k]]]

\* GameScreen._save_progress
save_progress(s) ==
    LET key == progress_key(s) IN
    IF key = <<>> \/ s.total_countries = 0 THEN s
    ELSE IF s.score <= 0 /\ s.round_phase # "retry" THEN s
    ELSE [s EXCEPT !.PERSISTENT_PROGRESS =
              [k \in (DOMAIN s.PERSISTENT_PROGRESS) \cup {key} |->
                  IF k = key THEN Snapshot(s) ELSE s.PERSISTENT_PROGRESS[k]]]

\* _clear_progress that deletes nothing
clear_progress_Keep(s) == s

\* _clear_progress that empties the whole store
clear_progress_All(s) ==
    LET key == progress_key(s) IN
    IF key # <<>> /\ key \in DOMAIN s.PERSISTENT_PROGRESS
    THEN [s EXCEPT !.PERSISTENT_PROGRESS = <<>>]
    ELSE s

\* GameScreen._clear_progress
clear_progress(s) ==
    LET key == progress_key(s) IN
    IF key # <<>> /\ key \in DOMAIN s.PERSISTENT_PROGRESS
    THEN [s EXCEPT !.PERSISTENT_PROGRESS =
              [k \in (DOMAIN s.PERSISTENT_PROGRESS) \ {key} |->
                  s.PERSISTENT_PROGRESS[k]]]
    ELSE s

\* the Draw branch with the pop of the swap-pop left out: the drawn country
\* stays in the pool
select_draw_NoPop(s, r) ==
    LET n == Len(s.countries_left)
        idx == ((r - 1) % n) + 1
        cur == s.countries_left[idx]
    IN [s EXCEPT !.current_country = cur,
                 !.countries_left =
                     [s.countries_left EXCEPT ![idx] = s.countries_left[n]],
                 !.current_capital =
                     IF s.game_mode = "capitals" /\ s.quiz_type = "capital"
                     THEN CapitalOf(cur) ELSE NoCountry]

\* the Draw branch with the swap of the swap-pop left out: the last country
\* is popped whichever one was drawn
select_draw_NoSwap(s, r) ==
    LET n == Len(s.countries_left)
        idx == ((r - 1) % n) + 1
        cur == s.countries_left[idx]
    IN [s EXCEPT !.current_country = cur,
                 !.countries_left = SubSeq(s.countries_left, 1, n - 1),
                 !.current_capital =
                     IF s.game_mode = "capitals" /\ s.quiz_type = "capital"
                     THEN CapitalOf(cur) ELSE NoCountry]

\* GameScreen.select_new_country, Draw branch (pool non-empty); r is the
\* value random.randrange yields (taken modulo the pool length, so that
\* every index can be drawn)
select_draw(s, r) ==
    LET n == Len(s.countries_left)
        idx == ((r - 1) % n) + 1
        cur == s.countries_left[idx]
        swapped == [s.countries_left EXCEPT ![idx] = s.countries_left[n]]
    IN [s EXCEPT !.current_country = cur,
                 !.countries_left = SubSeq(swapped, 1, n - 1),
                 !.current_capital =
                     IF s.game_mode = "capitals" /\ s.quiz_type = "capital"
                     THEN CapitalOf(cur) ELSE NoCountry]

\* the RetryTransition branch without the reset of the score
select_retry_KeepScore(s) ==
    [s EXCEPT !.countries_left = s.failed_countries,
              !.failed_countries = <<>>,
              !.total_countries = Len(s.failed_countries),
              !.round_phase = "retry",
              !.current_country = NoCountry,
              !.message = "round_extra",
              !.timer = TRUE]

\* the RetryTransition branch that refills the pool but keeps the failed pool
select_retry_KeepFailed(s) ==
    [s EXCEPT !.countries_left = s.failed_countries,
              !.score = 0,
              !.total_countries = Len(s.failed_countries),
              !.round_phase = "retry",
              !.current_country = NoCountry,
              !.message = "round_extra",
              !.timer = TRUE]

\* GameScreen.select_new_country, RetryTransition branch (pool empty, failed
\* pool non-empty)
select_retry(s) ==
    [s EXCEPT !.countries_left = s.failed_countries,
              !.failed_countries = <<>>,
              !.score = 0,
              !.total_countries = Len(s.failed_countries),
              !.round_phase = "retry",
              !.current_country = NoCountry,
              !.message = "round_extra",
              !.timer = TRUE]

\* the Complete branch that leaves the stopwatch running
select_complete_KeepChrono(s) ==
    clear_progress(
        [s EXCEPT !.message = IF s.score = s.total_countries
                                 /\ s.total_countries > 0
                              THEN "congrats_all"
                              ELSE "congrats_completed",
                  !.current_country = NoCountry,
                  !.current_capital = NoCountry,
                  !.round_phase = "full"])

\* GameScreen.select_new_country, Complete branch (both pools empty)
select_complete(s) ==
    clear_progress(
        [s EXCEPT !.chrono_running = FALSE,
                  !.message = IF s.score = s.total_countries
                                 /\ s.total_countries > 0
                              THEN "congrats_all"
                              ELSE "congrats_completed",
                  !.current_country = NoCountry,
                  !.current_capital = NoCountry,
                  !.round_phase = "full"])

\* GameScreen.select_new_country
select_new_country(s, r) ==
    IF s.countries_left # <<>> THEN select_draw(s, r)
    ELSE IF s.failed_countries # <<>> THEN select_retry(s)
    ELSE select_complete(s)

\* GameScreen.start_new_game(retry_failed=False), the only way it is called
start_new_game(s, r) ==
    LET pool == IF s.region_mode = "continente" /\ s.selected_continent # None
                THEN get_countries_in_continent(s, s.selected_continent)
                ELSE s.COUNTRIES
    IN select_new_country(
         [s EXCEPT !.chrono_start = s.now,
                   !.chrono_elapsed = 0,
                   !.chrono_running = TRUE,
                   !.message = "",
                   !.countries_left = pool,
                   !.failed_countries = <<>>,
                   !.round_phase = "full",
                   !.total_countries = Len(pool),
                   !.score = 0], r)

\* _load_progress that does not restore the failed pool
load_progress_KeepFailed(s, r) ==
    LET key == progress_key(s) IN
    IF key = <<>> \/ key \notin DOMAIN s.PERSISTENT_PROGRESS
    THEN [ok |-> FALSE, st |-> s]
    ELSE LET state == s.PERSISTENT_PROGRESS[key]
             s1 == [s EXCEPT !.countries_left = state.countries_left,
                             !.score = state.score,
                             !.total_countries = state.total,
                             !.current_country = state.current_country,
                             !.current_capital = state.current_capital,
                             !.chrono_elapsed = state.chrono_elapsed,
                             !.chrono_running = state.chrono_running,
                             !.round_phase = state.round_phase]
             s2 == IF s1.round_phase = "retry" /\ s1.current_country = NoCountry
                      /\ s1.countries_left # <<>>
                   THEN select_new_country(show_message(s1, "round_extra"), r)
                   ELSE s1
             s3 == IF s2.chrono_running
                   THEN [s2 EXCEPT !.chrono_start =
                            s2.now - s2.chrono_elapsed * TicksPerSecond]
                   ELSE s2
         IN [ok |-> TRUE, st |-> s3]

\* _load_progress that keeps the stopwatch's old start timestamp
load_progress_NoRebase(s, r) ==
    LET key == progress_key(s) IN
    IF key = <<>> \/ key \notin DOMAIN s.PERSISTENT_PROGRESS
    THEN [ok |-> FALSE, st |-> s]
    ELSE LET state == s.PERSISTENT_PROGRESS[key]
             s1 == [s EXCEPT !.countries_left = state.countries_left,
                             !.failed_countries = state.failed_countries,
                             !.score = state.score,
                             !.total_countries = state.total,
                             !.current_country = state.current_country,
                             !.current_capital = state.current_capital,
                             !.chrono_elapsed = state.chrono_elapsed,
                             !.chrono_running = state.chrono_running,
                             !.round_phase = state.round_phase]
             s2 == IF s1.round_phase = "retry" /\ s1.current_country = NoCountry
                      /\ s1.countries_left # <<>>
                   THEN select_new_country(show_message(s1, "round_extra"), r)
                   ELSE s1
             s3 == IF s2.chrono_running /\ s2.chrono_start = NoStart
                   THEN [s2 EXCEPT !.chrono_start = 0]
                   ELSE s2
         IN [ok |-> TRUE, st |-> s3]

\* GameScreen._load_progress: [ok |-> the return value, st |-> the state after]
load_progress(s, r) ==
    LET key == progress_key(s) IN
    IF key = <<>> \/ key \notin DOMAIN s.PERSISTENT_PROGRESS
    THEN [ok |-> FALSE, st |-> s]
    ELSE LET state == s.PERSISTENT_PROGRESS[key]
             s1 == [s EXCEPT !.countries_left = state.countries_left,
                             !.failed_countries = state.failed_countries,
                             !.score = state.score,
                             !.total_countries = state.total,
                             !.current_country = state.current_country,
                             !.current_capital = state.current_capital,
                             !.chrono_elapsed = state.chrono_elapsed,
                             !.chrono_running = state.chrono_running,
                             !.round_phase = state.round_phase]
             s2 == IF s1.round_phase = "retry" /\ s1.current_country = NoCountry
                      /\ s1.countries_left # <<>>
                   THEN select_new_country(show_message(s1, "round_extra"), r)
                   ELSE s1
             s3 == IF s2.chrono_running
                   THEN [s2 EXCEPT !.chrono_start =
                            s2.now - s2.chrono_elapsed * TicksPerSecond]
                   ELSE s2
         IN [ok |-> TRUE, st |-> s3]

\* the "if self._load_progress(): ... else: self.start_new_game()" of
\* handle_events, after game_mode / quiz_type has been set
load_or_start(s, r) ==
    LET l == load_progress(s, r) IN
    IF l.ok THEN l.st ELSE start_new_game(s, r)

\* Game.change_screen: a new screen object replaces the current one.  The
\* fields of a GameScreen that is no longer referenced are modelled by the
\* constructor's values, which is also what the next GameScreen starts with.
change_screen(s, name) == [GameScreenInit(s) EXCEPT !.screen = name]

\* navigate_back that leaves an active round without saving it
navigate_back_NoSave(s) ==
    IF s.current_country # NoCountry
       \/ (s.game_mode # None /\ s.round_phase = "retry"
           /\ (s.countries_left # <<>> \/ s.failed_countries # <<>>))
    THEN IF s.game_mode = "capitals" /\ s.quiz_type # None
         THEN [s EXCEPT !.current_country = NoCountry, !.countries_left = <<>>,
                        !.quiz_type = None, !.chrono_running = FALSE]
         ELSE [s EXCEPT !.current_country = NoCountry, !.countries_left = <<>>,
                        !.chrono_running = FALSE, !.game_mode = None]
    ELSE IF s.game_mode = "capitals" /\ s.quiz_type = None
    THEN [s EXCEPT !.game_mode = None]
    ELSE IF s.game_mode = None /\ s.region_mode # None
    THEN IF s.region_mode = "continente" /\ s.selected_continent # None
         THEN [s EXCEPT !.selected_continent = None]
         ELSE [s EXCEPT !.region_mode = None, !.selected_continent = None]
    ELSE change_screen(s, "menu")

\* navigate_back that leaves a capitals game without clearing quiz_type
navigate_back_KeepQuizType(s) ==
    IF s.current_country # NoCountry
       \/ (s.game_mode # None /\ s.round_phase = "retry"
           /\ (s.countries_left # <<>> \/ s.failed_countries # <<>>))
    THEN LET s1 == save_progress(s) IN
         IF s1.game_mode = "capitals" /\ s1.quiz_type # None
         THEN [s1 EXCEPT !.current_country = NoCountry, !.countries_left = <<>>,
                         !.chrono_running = FALSE]
         ELSE [s1 EXCEPT !.current_country = NoCountry, !.countries_left = <<>>,
                         !.chrono_running = FALSE, !.game_mode = None]
    ELSE IF s.game_mode = "capitals" /\ s.quiz_type = None
    THEN [s EXCEPT !.game_mode = None]
    ELSE IF s.game_mode = None /\ s.region_mode # None
    THEN IF s.region_mode = "continente" /\ s.selected_continent # None
         THEN [s EXCEPT !.selected_continent = None]
         ELSE [s EXCEPT !.region_mode = None, !.selected_continent = None]
    ELSE change_screen(s, "menu")

\* GameScreen.navigate_back
navigate_back(s) ==
    IF s.current_country # NoCountry
       \/ (s.game_mode # None /\ s.round_phase = "retry"
           /\ (s.countries_left # <<>> \/ s.failed_countries # <<>>))
    THEN LET s1 == save_progress(s) IN
         IF s1.game_mode = "capitals" /\ s1.quiz_type # None
         THEN [s1 EXCEPT !.current_country = NoCountry, !.countries_left = <<>>,
                         !.quiz_type = None, !.chrono_running = FALSE]
         ELSE [s1 EXCEPT !.current_country = NoCountry, !.countries_left = <<>>,
                         !.chrono_running = FALSE, !.game_mode = None]
    ELSE IF s.game_mode = "capitals" /\ s.quiz_type = None
    THEN [s EXCEPT !.game_mode = None]
    ELSE IF s.game_mode = None /\ s.region_mode # None
    THEN IF s.region_mode = "continente" /\ s.selected_continent # None
         THEN [s EXCEPT !.selected_continent = None]
         ELSE [s EXCEPT !.region_mode = None, !.selected_continent = None]
    ELSE change_screen(s, "menu")

\* the return value None of _get_mode_progress (a result is <<score, total>>)
NoProgress == <<>>

\* key.startswith(base_prefix): keys and prefixes are '|'-joined parts and no
\* part contains '|' or is a proper prefix of "flags" / "capitals", so the
\* string prefix test is the prefix test on the sequences of parts
IsPrefix(p, k) == Len(p) <= Len(k) /\ SubSeq(k, 1, Len(p)) = p

\* base_prefix of _get_mode_progress
base_prefix(s, mode) ==
    <<(IF s.region_mode = None THEN "global" ELSE s.region_mode)>>
    \o (IF s.region_mode = "continente"
        THEN <<(IF s.selected_continent = None THEN ""
                ELSE s.selected_continent)>>
        ELSE <<>>)
    \o <<mode>>

RECURSIVE mode_progress_loop_NoPrefix(_, _, _, _)
RECURSIVE mode_progress_loop(_, _, _, _)
\* the loop of _get_mode_progress without the test of the key's prefix
mode_progress_loop_NoPrefix(store, order, prefix, best) ==
    IF order = <<>> THEN best
    ELSE LET key == Head(order)
             state == store[key]
         IN IF state.total <= 0 \/ state.score <= 0
            THEN mode_progress_loop_NoPrefix(store, Tail(order), prefix, best)
            ELSE IF best = NoProgress
                    \/ state.score * best[2] > best[1] * state.total
            THEN mode_progress_loop_NoPrefix(store, Tail(order), prefix,
                                             <<state.score, state.total>>)
            ELSE mode_progress_loop_NoPrefix(store, Tail(order), prefix, best)

\* the loop of _get_mode_progress over the store's items in the order given;
\* best is NoProgress or <<score, total>>; "ratio > best[2]" compares the
\* quotients score / total, which for these small integers is the comparison
\* of the cross products
mode_progress_loop(store, order, prefix, best) ==
    IF order = <<>> THEN best
    ELSE LET key == Head(order)
             state == store[key]
         IN IF ~IsPrefix(prefix, key)
            THEN mode_progress_loop(store, Tail(order), prefix, best)
            ELSE IF state.total <= 0 \/ state.score <= 0
            THEN mode_progress_loop(store, Tail(order), prefix, best)
            ELSE IF best = NoProgress
                    \/ state.score * best[2] > best[1] * state.total
            THEN mode_progress_loop(store, Tail(order), prefix,
                                    <<state.score, state.total>>)
            ELSE mode_progress_loop(store, Tail(order), prefix, best)

\* the orders in which a dict with key set S can be iterated
RECURSIVE Orders(_)
Orders(S) ==
    IF S = {} THEN {<<>>}
    ELSE UNION {{<<k>> \o rest : rest \in Orders(S \ {k})} : k \in S}

\* GameScreen._get_mode_progress: the set of values it can return; the
\* iteration order of the dict (its insertion order) is not part of the
\* state, so every order is taken
get_mode_progress(s, mode) ==
    IF s.region_mode = None THEN {NoProgress}
    ELSE {mode_progress_loop(s.PERSISTENT_PROGRESS, order,
                             base_prefix(s, mode), NoProgress) :
             order \in Orders(DOMAIN s.PERSISTENT_PROGRESS)}

\* i18n.current_language: the active UI language
current_language(s) == s.language

\* i18n.set_ui_language: makes lang the active UI language and rebuilds the
\* catalog for it
set_ui_language(s, lang) == set_language([s EXCEPT !.language = lang], lang)

\* _handle_language_dropdown that keeps the progress store
handle_language_dropdown_KeepStore(s, lang_code) ==
    IF lang_code # current_language(s)
    THEN set_ui_language(s, lang_code)
    ELSE s

\* MenuScreen._handle_language_dropdown with option lang_code selected
handle_language_dropdown(s, lang_code) ==
    IF lang_code # current_language(s)
    THEN [set_ui_language(s, lang_code) EXCEPT !.PERSISTENT_PROGRESS = <<>>]
    ELSE s

\* the stopwatch update at the start of GameScreen.handle_events
frame_ticks(s) ==
    IF s.chrono_running /\ s.chrono_start # NoStart
    THEN [s EXCEPT !.chrono_elapsed =
             (s.now - s.chrono_start) \div TicksPerSecond]
    ELSE s

\* ---------------------------------------------------------------- actions
Init ==
    /\ screen = "menu"
    /\ region_mode = None /\ selected_continent = None
    /\ game_mode = None /\ quiz_type = None
    /\ current_country = NoCountry /\ current_capital = NoCountry
    /\ countries_left = <<>> /\ failed_countries = <<>>
    /\ score = 0 /\ total_countries = 0 /\ round_phase = "full"
    /\ chrono_running = FALSE /\ message = ""
    /\ PERSISTENT_PROGRESS = <<>>
    /\ timer = FALSE
    /\ language = "ES"
    /\ now = 0 /\ chrono_start = NoStart /\ chrono_elapsed = 0
    /\ CatalogLoaded("ES", {})
    /\ country_obj = NoCountryObj /\ input_text = <<>> /\ call = NoCall
    /\ events = 0

\* the level of GameScreen.handle_events' if/elif chain that is active
AtRegion == region_mode = None
AtContinent == region_mode = "continente" /\ selected_continent = None
AtMode == ~AtRegion /\ ~AtContinent /\ game_mode = None
AtQuizType == ~AtRegion /\ ~AtContinent /\ game_mode = "capitals"
              /\ quiz_type = None
InGame == ~AtRegion /\ ~AtContinent /\ game_mode # None /\ ~AtQuizType

\* MenuScreen._handle_menu_buttons: play
MenuPlay ==
    /\ events < MaxEvents
    /\ screen = "menu"
    /\ Assign(change_screen(St, "game"))

\* MenuScreen._handle_menu_buttons: settings
MenuSettings ==
    /\ events < MaxEvents
    /\ screen = "menu"
    /\ Assign(change_screen(St, "settings"))

\* MenuScreen: the language button opens the dropdown and an option l of it
\* is selected (_handle_language_dropdown)
SwitchLanguage ==
    /\ events < MaxEvents
    /\ screen = "menu"
    /\ \E l \in Languages : Assign(handle_language_dropdown(St, l))

\* SettingsScreen.handle_events: back / ESC
SettingsBack ==
    /\ events < MaxEvents
    /\ screen = "settings"
    /\ Assign(change_screen(St, "menu"))

\* GameScreen.handle_events: ESC or the back button
Back ==
    /\ events < MaxEvents
    /\ screen = "game"
    /\ Assign(navigate_back(frame_ticks(St)))

\* GameScreen.handle_events: region buttons
ChooseRegion ==
    /\ events < MaxEvents
    /\ screen = "game" /\ AtRegion
    /\ \E m \in {"global", "continente"} :
          Assign([frame_ticks(St) EXCEPT !.region_mode = m])

\* GameScreen.handle_events: continent buttons
ChooseContinent ==
    /\ events < MaxEvents
    /\ screen = "game" /\ ~AtRegion /\ AtContinent
    /\ \E c \in get_all_continents(St) :
          Assign([frame_ticks(St) EXCEPT !.selected_continent = c])

\* GameScreen.handle_events: flags button
ChooseFlags ==
    /\ events < MaxEvents
    /\ screen = "game" /\ AtMode
    /\ \E r \in 1..NumCountries :
          Assign(load_or_start([frame_ticks(St) EXCEPT !.game_mode = "flags"],
                               r))

\* GameScreen.handle_events: capitals button
ChooseCapitals ==
    /\ events < MaxEvents
    /\ screen = "game" /\ AtMode
    /\ Assign([frame_ticks(St) EXCEPT !.game_mode = "capitals"])

\* GameScreen.handle_events: by-country / by-capital buttons
ChooseQuizType ==
    /\ events < MaxEvents
    /\ screen = "game" /\ AtQuizType
    /\ \E q \in {"country", "capital"}, r \in 1..NumCountries :
          Assign(load_or_start([frame_ticks(St) EXCEPT !.quiz_type = q], r))

\* GameScreen.handle_events: skip button, or RETURN in the input field
Skip ==
    /\ events < MaxEvents
    /\ screen = "game" /\ InGame
    /\ current_country # NoCountry
    /\ \E r \in 1..NumCountries :
          Assign(select_new_country(
                   show_message([frame_ticks(St) EXCEPT !.failed_countries =
                                     Append(@, current_country)], "skipped"),
                   r))

\* GameScreen.auto_check_current when the typed text matches the answer
AnswerCorrect ==
    /\ events < MaxEvents
    /\ screen = "game" /\ InGame
    /\ current_country # NoCountry
    /\ \E r \in 1..NumCountries :
          Assign(select_new_country(
                   show_message(save_progress([frame_ticks(St)
                                                  EXCEPT !.score = @ + 1]),
                                "correct"),
                   r))

\* A USEREVENT+1 event of the armed timer is delivered to the active screen.
\* GameScreen.handle_events disarms the timer and calls select_new_country;
\* MenuScreen / SettingsScreen.handle_events consume it and do nothing.
TimerEvent ==
    /\ events < MaxEvents
    /\ timer
    /\ IF screen = "game"
       THEN \E r \in 1..NumCountries :
               Assign(select_new_country([frame_ticks(St)
                                             EXCEPT !.timer = FALSE], r))
       ELSE Assign(St)

\* Time passes: frames without input go by until the clock has advanced by
\* one unit; on the game screen each of them runs the stopwatch update at
\* the start of handle_events.
Tick ==
    /\ events < MaxEvents
    /\ Assign(IF screen = "game"
              THEN frame_ticks([St EXCEPT !.now = @ + 1])
              ELSE [St EXCEPT !.now = @ + 1])

Next ==
    \/ MenuPlay
    \/ MenuSettings
    \/ SwitchLanguage
    \/ SettingsBack
    \/ Back
    \/ ChooseRegion
    \/ ChooseContinent
    \/ ChooseFlags
    \/ ChooseCapitals
    \/ ChooseQuizType
    \/ Skip
    \/ AnswerCorrect
    \/ TimerEvent

\* the sessions with the clock not observed: no stopwatch reading changes
Spec == Init /\ [][Next]_vars

\* the sessions with time passing between the events
NextChrono ==
    \/ Next
    \/ Tick

SpecChrono == Init /\ [][NextChrono]_vars

\* GameScreen.auto_check_current when the typed text matches the answer, not
\* counted in events: the player goes on answering for as long as items are
\* asked
RoundAnswer ==
    /\ screen = "game" /\ InGame
    /\ current_country # NoCountry
    /\ \E r \in 1..NumCountries :
          AssignState(select_new_country(
                        show_message(save_progress([frame_ticks(St)
                                                       EXCEPT !.score = @ + 1]),
                                     "correct"),
                        r))
    /\ UNCHANGED events

\* the USEREVENT+1 event delivered to GameScreen.handle_events, not counted
\* in events
RoundTimer ==
    /\ timer /\ screen = "game"
    /\ \E r \in 1..NumCountries :
          AssignState(select_new_country([frame_ticks(St)
                                            EXCEPT !.timer = FALSE], r))
    /\ UNCHANGED events

\* the sessions in which, after at most MaxRoundEvents other events
\* (navigation, skips), every item asked is answered correctly and an armed timer fires
NextRound ==
    \/ (events < MaxRoundEvents /\ MenuPlay)
    \/ (events < MaxRoundEvents /\ Back)
    \/ (events < MaxRoundEvents /\ ChooseRegion)
    \/ (events < MaxRoundEvents /\ ChooseContinent)
    \/ (events < MaxRoundEvents /\ ChooseFlags)
    \/ (events < MaxRoundEvents /\ ChooseCapitals)
    \/ (events < MaxRoundEvents /\ ChooseQuizType)
    \/ (events < MaxRoundEvents /\ Skip)
    \/ RoundAnswer
    \/ RoundTimer

\* RoundAnswer / RoundTimer can be taken
AnswerEnabled == screen = "game" /\ InGame /\ current_country # NoCountry
TimerEnabled == timer /\ screen = "game"

\* the state after Game.change_screen("game") on the freshly started program:
\* a new GameScreen at the region selection
InitGame ==
    /\ screen = "game"
    /\ region_mode = None /\ selected_continent = None
    /\ game_mode = None /\ quiz_type = None
    /\ current_country = NoCountry /\ current_capital = NoCountry
    /\ countries_left = <<>> /\ failed_countries = <<>>
    /\ score = 0 /\ total_countries = 0 /\ round_phase = "full"
    /\ chrono_running = FALSE /\ message = ""
    /\ PERSISTENT_PROGRESS = <<>>
    /\ timer = FALSE
    /\ language = "ES"
    /\ now = 0 /\ chrono_start = NoStart /\ chrono_elapsed = 0
    /\ CatalogLoaded("ES", {})
    /\ country_obj = NoCountryObj /\ input_text = <<>> /\ call = NoCall
    /\ events = 0

\* the sessions followed from the moment the game screen is opened
SpecGame == InitGame /\ [][Next]_vars

\* the freshly started program when the catalog file of exactly one language
\* is absent: the import of utils.data has loaded 'ES'
InitCatalog ==
    /\ screen = "menu"
    /\ region_mode = None /\ selected_continent = None
    /\ game_mode = None /\ quiz_type = None
    /\ current_country = NoCountry /\ current_capital = NoCountry
    /\ countries_left = <<>> /\ failed_countries = <<>>
    /\ score = 0 /\ total_countries = 0 /\ round_phase = "full"
    /\ chrono_running = FALSE /\ message = ""
    /\ PERSISTENT_PROGRESS = <<>>
    /\ timer = FALSE
    /\ language = "ES"
    /\ now = 0 /\ chrono_start = NoStart /\ chrono_elapsed = 0
    /\ \E l \in Languages : CatalogLoaded("ES", {l})
    /\ country_obj = NoCountryObj /\ input_text = <<>> /\ call = NoCall
    /\ events = 0

\* the sessions of a program one of whose catalog files is absent
SpecCatalog == InitCatalog /\ [][Next]_vars

\* language codes that are not keys of LANG_FILES
UnsupportedCodes == {"FR", "es", ""}

\* the program after the import of utils.data, with any of the catalog files
\* absent
InitLoad ==
    /\ screen = "menu"
    /\ region_mode = None /\ selected_continent = None
    /\ game_mode = None /\ quiz_type = None
    /\ current_country = NoCountry /\ current_capital = NoCountry
    /\ countries_left = <<>> /\ failed_countries = <<>>
    /\ score = 0 /\ total_countries = 0 /\ round_phase = "full"
    /\ chrono_running = FALSE /\ message = ""
    /\ PERSISTENT_PROGRESS = <<>>
    /\ timer = FALSE
    /\ language = "ES"
    /\ now = 0 /\ chrono_start = NoStart /\ chrono_elapsed = 0
    /\ \E missing \in SUBSET LANG_FILES : CatalogLoaded("ES", missing)
    /\ country_obj = NoCountryObj /\ input_text = <<>> /\ call = NoCall
    /\ events = 0

\* the variables a call of load_countries_for_language leaves alone
LoadUnchanged ==
    UNCHANGED <<screen, region_mode, selected_continent, game_mode, quiz_type,
                current_country, current_capital, countries_left,
                failed_countries, score, total_countries, round_phase,
                chrono_running, message, PERSISTENT_PROGRESS, timer, language,
                now, chrono_start, chrono_elapsed, missing_files,
                country_obj, input_text>>

\* data.load_countries_for_language(code) called with any code
LoadLanguage ==
    /\ events < MaxEvents
    /\ \E code \in LANG_FILES \cup UnsupportedCodes :
          LET l == load_countries_for_language(St, code)
          IN /\ call' = [fn |-> "load_countries_for_language",
                         code |-> code, raised |-> l.raised]
             /\ CURRENT_LANGUAGE' = l.st.CURRENT_LANGUAGE
             /\ COUNTRIES' = l.st.COUNTRIES
             /\ CAPITALS' = l.st.CAPITALS
             /\ COUNTRIES_BY_CONTINENT' = l.st.COUNTRIES_BY_CONTINENT
    /\ events' = events + 1
    /\ LoadUnchanged

NextLoad == LoadLanguage

\* the calls of load_countries_for_language, whatever files are absent
SpecLoad == InitLoad /\ [][NextLoad]_vars

\* weak fairness of RoundAnswer and RoundTimer, with their guards written out
SpecRound ==
    /\ InitGame /\ [][NextRound]_vars
    /\ ([]<>~AnswerEnabled \/ []<><<RoundAnswer>>_vars)
    /\ ([]<>~TimerEnabled \/ []<><<RoundTimer>>_vars)

\* ----------------------------------------------------------- match engine
\* The match engine is a set of pure functions of the catalog language, a
\* Country and the typed text; SpecMatch draws the three from bounded sets
\* and applies each function once.

\* all texts over alphabet of length at most n
Texts(alphabet, n) == UNION {[1..k -> alphabet] : k \in 0..n}

\* characters of the short names and answers: a letter in lower case and in
\* upper case with an accent, a space and a punctuation mark
NameAlphabet == {"a", "A'", " ", "-"}

\* characters of the texts normalize_text is applied to: letters, accented
\* letters, a digit, punctuation, spaces, other whitespace, and a letter
\* without an ASCII decomposition
TextAlphabet == {"a", "B", "A'", "1", "-", " ", "tab", "nbsp", "eszett"}

\* rows (name, capital, iso_code) of a catalog file: some rows of the kind
\* the data files hold, and every short name
CatalogRows ==
    {[name |-> <<"E", "s", "t", "a", "d", "o", "s", " ", "U", "n", "i", "d", "o", "s">>,
     capital |-> <<"W", "a", "s", "h", "i", "n", "g", "t", "o", "n", " ", "D", ".", " ", "C", ".">>,
     iso_code |-> "US"],
     [name |-> <<"U", "n", "i", "t", "e", "d", " ", "S", "t", "a", "t", "e", "s">>,
     capital |-> <<"W", "a", "s", "h", "i", "n", "g", "t", "o", "n", ",", " ", "D", ".", "C", ".">>,
     iso_code |-> "US"],
     [name |-> <<"R", "e", "i", "n", "o", " ", "U", "n", "i", "d", "o">>,
     capital |-> <<"L", "o", "n", "d", "r", "e", "s">>,
     iso_code |-> "GB"],
     [name |-> <<"C", "o", "s", "t", "a", " ", "R", "i", "c", "a">>,
     capital |-> <<"S", "a", "n", " ", "J", "o", "s", "e'">>,
     iso_code |-> "CR"],
     [name |-> <<"M", "e'", "x", "i", "c", "o">>,
     capital |-> <<"C", "i", "u", "d", "a", "d", " ", "d", "e", " ", "M", "e'", "x", "i", "c", "o">>,
     iso_code |-> "MX"],
     [name |-> <<"B", "o", "l", "i", "v", "i", "a">>,
     capital |-> <<"S", "u", "c", "r", "e">>,
     iso_code |-> "BO"],
     [name |-> <<"L", "a", "o", "s">>,
     capital |-> <<"V", "i", "e", "n", "t", "i", "a'", "n">>,
     iso_code |-> "LA"]}
    \cup {[name |-> t, capital |-> t, iso_code |-> "XX"] :
             t \in Texts(NameAlphabet, MaxNameLen)}

\* the answers typed: some answers of the kind players type, and every short
\* text
Answers ==
    {<<"u", "s", "a">>,
     <<"u", "k">>,
     <<"u", "n", "i", "t", "e", "d", " ", "s", "t", "a", "t", "e", "s">>,
     <<"e", "s", "t", "a", "d", "o", "s", " ", "u", "n", "i", "d", "o", "s">>,
     <<"E", "s", "t", "a", "d", "o", "s", " ", "U", "n", "i", "d", "o", "s">>,
     <<"e", "e", "u", "u">>,
     <<"c", "o", "s", "t", "a", "r", "i", "c", "a">>,
     <<"M", "e'", "x", "i", "c", "o">>,
     <<"m", "e", "x", "i", "c", "o">>,
     <<"l", "a", " ", "p", "a", "z">>,
     <<"l", "a", "o", "s">>,
     <<"r", "e", "i", "n", "o", " ", "u", "n", "i", "d", "o">>,
     <<"s", "a", "n", " ", "j", "o", "s", "e">>,
     <<"s", "a", "n", " ", "j", "o", "s">>,
     <<"c", "r">>,
     <<"w", "a", "s", "h", "i", "n", "g", "t", "o", "n">>}
    \cup Texts(NameAlphabet, MaxNameLen)

\* a catalog language, a Country loaded under it and a typed answer; or a
\* text alone
InitMatch ==
    /\ screen = "menu"
    /\ region_mode = None /\ selected_continent = None
    /\ game_mode = None /\ quiz_type = None
    /\ current_country = NoCountry /\ current_capital = NoCountry
    /\ countries_left = <<>> /\ failed_countries = <<>>
    /\ score = 0 /\ total_countries = 0 /\ round_phase = "full"
    /\ chrono_running = FALSE /\ message = ""
    /\ PERSISTENT_PROGRESS = <<>>
    /\ timer = FALSE
    /\ now = 0 /\ chrono_start = NoStart /\ chrono_elapsed = 0
    /\ \/ /\ CURRENT_LANGUAGE \in Languages
          /\ country_obj \in {Country(r, CURRENT_LANGUAGE) : r \in CatalogRows}
          /\ input_text \in Answers
       \/ /\ CURRENT_LANGUAGE = "ES"
          /\ country_obj = NoCountryObj
          /\ input_text \in Texts(TextAlphabet, MaxTextLen)
    /\ language = CURRENT_LANGUAGE
    /\ CatalogLoaded(CURRENT_LANGUAGE, {})
    /\ call = NoCall
    /\ events = 0

\* the variables a call of the match engine leaves alone
MatchUnchanged ==
    UNCHANGED <<screen, region_mode, selected_continent, game_mode, quiz_type,
                current_country, current_capital, countries_left,
                failed_countries, score, total_countries, round_phase,
                chrono_running, message, PERSISTENT_PROGRESS, timer, language,
                now, chrono_start, chrono_elapsed, CURRENT_LANGUAGE,
                COUNTRIES, CAPITALS, COUNTRIES_BY_CONTINENT, missing_files,
                country_obj, input_text>>

\* country_obj.check_name_match(input_text): a NAME answer
CheckName ==
    /\ events < MaxEvents
    /\ call = NoCall /\ country_obj # NoCountryObj
    /\ call' = [fn |-> "check_name_match",
                max_distance |-> DefaultMaxDistance,
                matched |-> check_name_match(country_obj, input_text,
                                             CURRENT_LANGUAGE),
                normalized |-> <<>>]
    /\ events' = events + 1
    /\ MatchUnchanged

\* are_strings_similar(input_text, country_obj.capital, d): a CAPITAL answer
CheckCapital ==
    /\ events < MaxEvents
    /\ call = NoCall /\ country_obj # NoCountryObj
    /\ \E d \in 0..DefaultMaxDistance :
          call' = [fn |-> "are_strings_similar", max_distance |-> d,
                   matched |-> are_strings_similar(input_text,
                                                   country_obj.capital, d),
                   normalized |-> <<>>]
    /\ events' = events + 1
    /\ MatchUnchanged

\* normalize_text(input_text)
Normalize ==
    /\ events < MaxEvents
    /\ call = NoCall
    /\ call' = [fn |-> "normalize_text", max_distance |-> DefaultMaxDistance,
                matched |-> FALSE,
                normalized |-> normalize_text(input_text)]
    /\ events' = events + 1
    /\ MatchUnchanged

NextMatch ==
    \/ CheckName
    \/ CheckCapital
    \/ Normalize

SpecMatch == InitMatch /\ [][NextMatch]_vars

\* ------------------------------------------------------------ properties
\* the branch select_new_country takes when called on the current pools
Outcome == IF countries_left # <<>> THEN "draw"
           ELSE IF failed_countries # <<>> THEN "retry"
           ELSE "complete"

\* the working set of the round start_new_game would start now
WorkingSet ==
    IF region_mode = "continente" /\ selected_continent # None
    THEN Range(get_countries_in_continent(St, selected_continent))
    ELSE Range(CatalogList)

NoDuplicates(s) == Cardinality(Range(s)) = Len(s)

\* C1: in every reachable state the pool (countries_left) and the failed pool
\* (failed_countries) share no item, whatever sequence of draws, skips,
\* answers, retry transitions, saves, navigation and resumes led there.
C1_PoolsDisjoint ==
    Range(countries_left) \cap Range(failed_countries) = {}

\* C1 witness: a resumable round in which an item was skipped while others
\* are still in the pool
C1_Witness ==
    /\ InGame /\ current_country # NoCountry
    /\ countries_left # <<>> /\ failed_countries # <<>>
    /\ progress_key(St) \in DOMAIN PERSISTENT_PROGRESS

\* steps in which select_new_country runs its Complete branch: the call
\* made after a correct answer or by the timer handler, with both pools empty
CompleteStep ==
    /\ Outcome = "complete"
    /\ (AnswerCorrect \/ (TimerEvent /\ screen = "game"))

\* C2 (the claim as stated): when the pass that completes is a RETRY pass
\* (so items were failed earlier in the run), the completion message is the
\* standard one and not the perfect-run message.
C2_Claim ==
    [][(AnswerCorrect /\ Outcome = "complete" /\ round_phase = "retry")
         => message' = "congrats_completed"]_vars

\* C3: a freshly started round holds the whole working set, each item once,
\* split into the drawn item and the pool; while nothing has been failed,
\* every correct answer draws an item of the pool and removes exactly that
\* item, with no RetryTransition, until the pool is empty, and then the call
\* after the last correct answer is the Complete outcome.  Hence N correct
\* answers in a row see N distinct draws, the N items of the working set.
C3_FreshStart ==
    (ChooseFlags \/ ChooseQuizType)
       /\ progress_key(St)' \notin DOMAIN PERSISTENT_PROGRESS
    => /\ current_country' \in WorkingSet
       /\ Range(countries_left') = WorkingSet \ {current_country'}
       /\ Len(countries_left') = Cardinality(WorkingSet) - 1
       /\ failed_countries' = <<>>
       /\ score' = 0 /\ total_countries' = Cardinality(WorkingSet)
       /\ round_phase' = "full"

C3_CorrectDraw ==
    AnswerCorrect /\ round_phase = "full" /\ failed_countries = <<>>
    => IF countries_left # <<>>
       THEN /\ current_country' \in Range(countries_left)
            /\ Range(countries_left') =
                   Range(countries_left) \ {current_country'}
            /\ Len(countries_left') = Len(countries_left) - 1
            /\ score' = score + 1 /\ total_countries' = total_countries
            /\ round_phase' = "full" /\ failed_countries' = <<>>
            /\ timer' = timer
       ELSE /\ current_country' = NoCountry
            /\ message' \in {"congrats_all", "congrats_completed"}
            /\ score' = score + 1

C3_NoRepeat ==
    /\ NoDuplicates(countries_left)
    /\ current_country \notin Range(countries_left)

C3_DistinctDraws ==
    /\ []C3_NoRepeat
    /\ [][C3_FreshStart /\ C3_CorrectDraw]_vars

\* C3 witness: a round over the whole working set completed with every item
\* answered correctly in the FULL pass
C3_Witness ==
    /\ InGame /\ current_country = NoCountry
    /\ message = "congrats_all"
    /\ score = Cardinality(WorkingSet) /\ total_countries = score
    /\ ~timer

\* C4 (the claim as stated): whenever a round completes, every item of the
\* completing pass has been answered correctly, so the final score equals
\* the pass's total.
C4_Claim ==
    [][(CompleteStep /\ InGame) => score' = total_countries']_vars

\* C5: a call of select_new_country with the pool empty and the failed pool
\* non-empty moves the failed pool into the pool, empties the failed pool,
\* resets score to 0, sets total to the number of moved items, sets the phase
\* to retry, clears the current item and arms the timer; nothing is drawn.
C5_RetryPost(moved) ==
    /\ countries_left' = moved
    /\ failed_countries' = <<>>
    /\ score' = 0
    /\ total_countries' = Len(moved)
    /\ round_phase' = "retry"
    /\ current_country' = NoCountry
    /\ timer'

C5_RetryTransition ==
    [][/\ (Skip /\ countries_left = <<>>)
            => C5_RetryPost(Append(failed_countries, current_country))
       /\ (Outcome = "retry" /\ (AnswerCorrect \/ (TimerEvent /\ screen = "game")))
            => C5_RetryPost(failed_countries)]_vars

\* C5 witness: the interstitial state right after a RetryTransition
C5_Witness ==
    /\ InGame /\ round_phase = "retry" /\ current_country = NoCountry
    /\ countries_left # <<>> /\ failed_countries = <<>>
    /\ score = 0 /\ total_countries = Len(countries_left)
    /\ timer /\ message = "round_extra"

\* C6: a call of select_new_country with both pools empty stops the
\* stopwatch, sets the phase to full, clears the current item and capital,
\* and leaves score and total at the final values of the finished pass.
C6_CompletePost ==
    [][CompleteStep =>
         /\ ~chrono_running'
         /\ round_phase' = "full"
         /\ current_country' = NoCountry /\ current_capital' = NoCountry
         /\ total_countries' = total_countries
         /\ score' = IF AnswerCorrect THEN score + 1 ELSE score]_vars

\* C6 witness: a round completed at the end of a RETRY pass
C6_Witness ==
    /\ InGame /\ current_country = NoCountry /\ current_capital = NoCountry
    /\ countries_left = <<>> /\ failed_countries = <<>>
    /\ ~chrono_running /\ round_phase = "full"
    /\ message \in {"congrats_all", "congrats_completed"}
    /\ total_countries > 0 /\ total_countries < Cardinality(WorkingSet)

\* the round of the selected combination is finished: nothing is being
\* asked and both pools are empty
Completed ==
    /\ InGame /\ current_country = NoCountry
    /\ countries_left = <<>> /\ failed_countries = <<>>

\* entering a combination (flags, or a capitals sub-mode)
EnterStep == ChooseFlags \/ ChooseQuizType

\* C7: the Complete outcome of the round being played removes the store
\* entry under the round's key; no entry exists under that key as long as the
\* completed round stays on screen; and an entry into a combination that
\* finds no snapshot starts a FULL pass over the whole working set, score 0.
C7_EntryRemoved ==
    /\ [](Completed => progress_key(St) \notin DOMAIN PERSISTENT_PROGRESS)
    /\ [][/\ (CompleteStep /\ InGame)
               => progress_key(St) \notin DOMAIN PERSISTENT_PROGRESS'
          /\ (EnterStep /\ progress_key(St)' \notin DOMAIN PERSISTENT_PROGRESS)
               => /\ round_phase' = "full" /\ score' = 0
                  /\ failed_countries' = <<>>
                  /\ total_countries' = Cardinality(WorkingSet)
                  /\ Range(countries_left') \cup {current_country'}
                        = WorkingSet]_vars

\* C7 witness: a completed round whose last pass had correct answers (each
\* of which saved an entry under the key) and whose entry is gone
C7_Witness ==
    /\ Completed /\ score >= 2 /\ score = total_countries
    /\ progress_key(St) \notin DOMAIN PERSISTENT_PROGRESS
    /\ round_phase = "full" /\ ~chrono_running

\* an active round: an item is being asked, or a RETRY pass is pending
RoundActive ==
    /\ InGame
    /\ \/ current_country # NoCountry
       \/ (round_phase = "retry" /\ countries_left # <<>>)

\* the condition under which _save_progress returns without saving
SaveSuppressed ==
    \/ total_countries = 0
    \/ (score <= 0 /\ round_phase # "retry")

\* the six fields of the live round equal those of a snapshot
SameRound(snap) ==
    /\ current_country' = snap.current_country
    /\ countries_left' = snap.countries_left
    /\ failed_countries' = snap.failed_countries
    /\ score' = snap.score
    /\ total_countries' = snap.total
    /\ round_phase' = snap.round_phase

\* as SameRound, except that a pending RETRY pass (no current item) is
\* resumed by drawing its first item from the saved pool
ResumedRound(snap) ==
    /\ failed_countries' = snap.failed_countries
    /\ score' = snap.score
    /\ total_countries' = snap.total
    /\ round_phase' = snap.round_phase
    /\ IF snap.round_phase = "retry" /\ snap.current_country = NoCountry
          /\ snap.countries_left # <<>>
       THEN /\ current_country' \in Range(snap.countries_left)
            /\ Range(countries_left') =
                   Range(snap.countries_left) \ {current_country'}
            /\ Len(countries_left') = Len(snap.countries_left) - 1
       ELSE /\ current_country' = snap.current_country
            /\ countries_left' = snap.countries_left

\* C8 (the claim as stated): navigating back from any active round stores
\* the round as it is at that moment, and entering a combination that has an
\* entry resumes with exactly the stored item, pools, score, total and phase.
C8_Claim ==
    [][/\ (Back /\ RoundActive)
            => /\ progress_key(St) \in DOMAIN PERSISTENT_PROGRESS'
               /\ PERSISTENT_PROGRESS'[progress_key(St)] = Snapshot(St)
       /\ (EnterStep /\ progress_key(St)' \in DOMAIN PERSISTENT_PROGRESS)
            => SameRound(PERSISTENT_PROGRESS[progress_key(St)'])]_vars

\* C8 (amended): navigating back from an active round whose save is not
\* suppressed stores the round as it is at that moment and then abandons the
\* live round; if the save is suppressed (FULL pass, score 0) the store is
\* left unchanged; an entry changes only in a step taken under its own key or
\* by a language switch; and entering a combination that has an entry resumes
\* with the stored failed pool, score, total and phase, and with the stored
\* item and pool, except that a pending RETRY pass is resumed by drawing its
\* first item from the stored pool.
C8_SaveAndResume ==
    [][/\ (Back /\ RoundActive /\ ~SaveSuppressed)
            => /\ progress_key(St) \in DOMAIN PERSISTENT_PROGRESS'
               /\ PERSISTENT_PROGRESS'[progress_key(St)] = Snapshot(St)
               /\ current_country' = NoCountry /\ countries_left' = <<>>
       /\ (Back /\ RoundActive /\ SaveSuppressed)
            => PERSISTENT_PROGRESS' = PERSISTENT_PROGRESS
       /\ ~SwitchLanguage
            => \A k \in DOMAIN PERSISTENT_PROGRESS :
                  k # progress_key(St)
                  => /\ k \in DOMAIN PERSISTENT_PROGRESS'
                     /\ PERSISTENT_PROGRESS'[k] = PERSISTENT_PROGRESS[k]
       /\ (EnterStep /\ progress_key(St)' \in DOMAIN PERSISTENT_PROGRESS)
            => /\ ResumedRound(PERSISTENT_PROGRESS[progress_key(St)'])
               /\ PERSISTENT_PROGRESS' = PERSISTENT_PROGRESS]_vars

\* C8 witness: a round just resumed from its entry, with an item being asked
\* and earlier work (a correct answer and a failure) carried over
C8_Witness ==
    /\ InGame /\ current_country # NoCountry
    /\ progress_key(St) \in DOMAIN PERSISTENT_PROGRESS
    /\ LET snap == PERSISTENT_PROGRESS[progress_key(St)] IN
          /\ snap.current_country = current_country
          /\ snap.countries_left = countries_left
          /\ snap.failed_countries = failed_countries
          /\ snap.score = score /\ snap.total = total_countries
          /\ snap.round_phase = round_phase
    /\ score > 0 /\ failed_countries # <<>>

\* a live round that was mutated after a save: all round fields overwritten
Scrambled(s) ==
    [s EXCEPT !.current_country = NoCountry, !.current_capital = NoCountry,
              !.countries_left = <<>>, !.failed_countries = CatalogList,
              !.score = 0, !.total_countries = 0,
              !.round_phase = IF @ = "full" THEN "retry" ELSE "full",
              !.chrono_running = FALSE]

\* save in the current state, mutate the live round, then load with draw r
SaveThenLoad(r) == load_progress(Scrambled(save_progress(St)), r)

\* C9 (the claim as stated): whenever the save is not suppressed, save
\* followed by load under the same key yields the item, pools, score, total
\* and phase of the moment of the save.
C9_Claim ==
    (progress_key(St) # <<>> /\ ~SaveSuppressed)
    => \A r \in 1..NumCountries :
          LET l == SaveThenLoad(r) IN
          /\ l.ok
          /\ l.st.current_country = current_country
          /\ l.st.countries_left = countries_left
          /\ l.st.failed_countries = failed_countries
          /\ l.st.score = score
          /\ l.st.total_countries = total_countries
          /\ l.st.round_phase = round_phase

\* C9 (amended): whenever the save is not suppressed, save followed by load
\* under the same key yields the failed pool, score, total and phase of the
\* moment of the save whatever happened to the live round in between, and
\* the same item and pool, except when the save was made with a RETRY pass
\* pending (no current item, pool non-empty): then the load draws an item of
\* the saved pool and leaves the rest of it as the pool.
C9_RoundTrip ==
    (progress_key(St) # <<>> /\ ~SaveSuppressed)
    => \A r \in 1..NumCountries :
          LET l == SaveThenLoad(r) IN
          /\ l.ok
          /\ l.st.failed_countries = failed_countries
          /\ l.st.score = score
          /\ l.st.total_countries = total_countries
          /\ l.st.round_phase = round_phase
          /\ IF round_phase = "retry" /\ current_country = NoCountry
                /\ countries_left # <<>>
             THEN /\ l.st.current_country \in Range(countries_left)
                  /\ Range(l.st.countries_left) =
                        Range(countries_left) \ {l.st.current_country}
                  /\ Len(l.st.countries_left) = Len(countries_left) - 1
             ELSE /\ l.st.current_country = current_country
                  /\ l.st.countries_left = countries_left

\* C9 witness: a round in its FULL pass with a correct answer, a failure, an
\* item being asked and another one left, for which the save is not
\* suppressed
C9_Witness ==
    /\ RoundActive /\ ~SaveSuppressed
    /\ round_phase = "full" /\ score = 1
    /\ current_country # NoCountry
    /\ Len(failed_countries) = 1
    /\ Len(countries_left) + Len(failed_countries) + score + 1 = total_countries

\* C10: _save_progress leaves the store unchanged when total is 0, or when
\* score <= 0 and the phase is not retry: as a function on every reachable
\* state, and in every navigate-back step; and a round in phase full with
\* score 0 never has an entry under its key.
C10_SaveNoOp ==
    /\ [](SaveSuppressed =>
            save_progress(St).PERSISTENT_PROGRESS = PERSISTENT_PROGRESS)
    /\ []((InGame /\ round_phase = "full" /\ score = 0)
            => progress_key(St) \notin DOMAIN PERSISTENT_PROGRESS)
    /\ [][(Back /\ SaveSuppressed)
            => PERSISTENT_PROGRESS' = PERSISTENT_PROGRESS]_vars

\* C10 witness: the live state left behind by navigating back from a FULL
\* pass with failures but no correct answer: nothing was saved
C10_Witness ==
    /\ screen = "game" /\ region_mode # None /\ game_mode = None
    /\ round_phase = "full" /\ score = 0 /\ total_countries > 0
    /\ failed_countries # <<>> /\ current_country = NoCountry
    /\ PERSISTENT_PROGRESS = <<>>

\* a round that was just started and not touched: FULL pass, nothing answered
\* or failed, the whole working set still in the drawn item and the pool
FreshRound ==
    /\ InGame /\ current_country # NoCountry
    /\ round_phase = "full" /\ score = 0 /\ failed_countries = <<>>
    /\ Range(countries_left) \cup {current_country} = WorkingSet

\* C11: every entry of the progress store has total > 0 and either score > 0
\* or phase retry; and a freshly started, untouched round has no entry under
\* its key.
C11_StoreEntries ==
    /\ \A k \in DOMAIN PERSISTENT_PROGRESS :
          /\ PERSISTENT_PROGRESS[k].total > 0
          /\ \/ PERSISTENT_PROGRESS[k].score > 0
             \/ PERSISTENT_PROGRESS[k].round_phase = "retry"
    /\ FreshRound => progress_key(St) \notin DOMAIN PERSISTENT_PROGRESS

\* C11 witness: a fresh round is on screen while the store holds, under
\* another key, a RETRY pass saved with score 0
C11_Witness ==
    /\ FreshRound
    /\ \E k \in DOMAIN PERSISTENT_PROGRESS :
          /\ PERSISTENT_PROGRESS[k].score = 0
          /\ PERSISTENT_PROGRESS[k].round_phase = "retry"
          /\ PERSISTENT_PROGRESS[k].total > 0

\* the region / continent contexts _get_mode_progress can be asked for, and
\* the two modes
Context(rm, sc) == [St EXCEPT !.region_mode = rm, !.selected_continent = sc]
RegionModes == {"global", "continente"}
ContinentChoices == Continents \cup {None}
Modes == {"flags", "capitals"}
QuizTypes == {"country", "capital"}

\* a round state asking for the combination (rm, sc, gm, qt)
Combination(rm, sc, gm, qt) ==
    [St EXCEPT !.region_mode = rm, !.selected_continent = sc,
               !.game_mode = gm, !.quiz_type = qt]

\* C12: a selection of a language different from the active one empties the
\* whole progress store: right after it, load finds nothing under the key of
\* any combination, and the best progress of every region / continent / mode
\* is none, whatever entries the store held before.
C12_SwitchClears ==
    [][(SwitchLanguage /\ language' # language)
         => /\ PERSISTENT_PROGRESS' = <<>>
            /\ \A rm \in RegionModes, sc \in ContinentChoices :
                  /\ \A mode \in Modes :
                        get_mode_progress(Context(rm, sc), mode)'
                           = {NoProgress}
                  /\ \A gm \in Modes, qt \in QuizTypes \cup {None} :
                        ~load_progress(Combination(rm, sc, gm, qt), 1).ok']_vars

\* C12 witness: after an earlier switch (the active language is no longer the
\* initial one) a round was played and left, so that the menu is showing with
\* an entry of real progress in the store and a further switch can be taken
C12_Witness ==
    /\ screen = "menu" /\ language # "ES" /\ events < MaxEvents
    /\ \E k \in DOMAIN PERSISTENT_PROGRESS :
          PERSISTENT_PROGRESS[k].score > 0
    /\ get_mode_progress(Context("global", None), "flags") # {NoProgress}

\* the region, continent and mode a store key was saved for, read off the
\* parts of the key
KeyRegion(k) == k[1]
KeyContinent(k) == IF k[1] = "continente" THEN k[2] ELSE None
KeyMode(k) == IF k[1] = "continente" THEN k[3] ELSE k[2]

\* the entries of real progress that belong to region rm, continent sc (for
\* the regional mode) and mode
Qualifying(rm, sc, mode) ==
    {k \in DOMAIN PERSISTENT_PROGRESS :
        /\ KeyRegion(k) = rm
        /\ rm = "continente" => KeyContinent(k) = sc
        /\ KeyMode(k) = mode
        /\ PERSISTENT_PROGRESS[k].score > 0
        /\ PERSISTENT_PROGRESS[k].total > 0}

\* score / total of entry k is at least that of entry k2
RatioAtLeast(k, k2) ==
    PERSISTENT_PROGRESS[k].score * PERSISTENT_PROGRESS[k2].total
       >= PERSISTENT_PROGRESS[k2].score * PERSISTENT_PROGRESS[k].total

C14_Claim ==
    [][(TimerEvent /\ ~(screen = "game" /\ Outcome = "retry"))
         => ~timer']_vars

\* the whole seconds between the stopwatch's start timestamp and tick n
WholeSeconds(n) == (n - chrono_start) \div TicksPerSecond

\* C15: (1) while the stopwatch of the game screen runs, the seconds shown
\* are the whole seconds between its start timestamp and the current tick,
\* and passing time changes them only through that reading; (2) navigating
\* back from an active round saves the seconds shown at that moment, and
\* entering a combination that has an entry continues from the seconds saved
\* in the entry, however much time has passed since; (3) a completed round's
\* stopwatch is stopped, and a stopped stopwatch does not advance.
C15_Stopwatch ==
    /\ []((screen = "game" /\ chrono_running)
            => /\ chrono_start # NoStart /\ chrono_start <= now
               /\ chrono_elapsed = WholeSeconds(now))
    /\ [](Completed => ~chrono_running)
    /\ [][/\ (screen = "game" /\ chrono_running /\ now' # now /\ Tick)
               => /\ chrono_start' = chrono_start
                  /\ chrono_elapsed' = WholeSeconds(now + 1)
          /\ (~chrono_running /\ now' # now /\ Tick)
               => chrono_elapsed' = chrono_elapsed
          /\ (screen = "game" /\ RoundActive /\ ~SaveSuppressed /\ Back)
               => /\ PERSISTENT_PROGRESS'[progress_key(St)].chrono_elapsed
                        = chrono_elapsed
                  /\ ~chrono_running'
          /\ (progress_key(St)' \in DOMAIN PERSISTENT_PROGRESS
                /\ ~InGame /\ InGame' /\ EnterStep)
               => /\ chrono_elapsed' =
                        PERSISTENT_PROGRESS[progress_key(St)'].chrono_elapsed
                  /\ chrono_running' =
                        PERSISTENT_PROGRESS[progress_key(St)'].chrono_running
                  /\ chrono_running'
                        => chrono_start' =
                              now - chrono_elapsed' * TicksPerSecond]_vars

\* C15 witness: a round resumed from its entry (the entry still shows the
\* RETRY pass pending, which only a navigate-back saves, while an item of it
\* is being asked), with the stopwatch running again from a start timestamp
\* later than the clock's origin and showing the seconds of the entry
C15_Witness ==
    /\ InGame /\ current_country # NoCountry /\ chrono_running
    /\ progress_key(St) \in DOMAIN PERSISTENT_PROGRESS
    /\ LET snap == PERSISTENT_PROGRESS[progress_key(St)] IN
          /\ snap.round_phase = "retry" /\ snap.current_country = NoCountry
          /\ snap.chrono_elapsed = chrono_elapsed
    /\ round_phase = "retry"
    /\ chrono_start > 0
    /\ now = chrono_start + chrono_elapsed * TicksPerSecond

\* a text of characters a-z and 0-9 in words separated by single spaces, with
\* no space at either end
NormalForm(t) ==
    /\ \A i \in DOMAIN t : t[i] \in Range(Lower26) \cup Digits \cup {" "}
    /\ t # <<>> => t[1] # " " /\ t[Len(t)] # " "
    /\ \A i \in 1..(Len(t) - 1) : ~(t[i] = " " /\ t[i + 1] = " ")

\* C20: normalize_text is idempotent: normalizing its result again gives the
\* same text, and the result holds only characters a-z and 0-9 separated by
\* single spaces, with no leading or trailing space.
C20_Idempotent ==
    call.fn = "normalize_text"
    => /\ normalize_text(call.normalized) = call.normalized
       /\ NormalForm(call.normalized)

\* a text with a run of two different whitespace characters between two words
\* has been normalized to the two words and one space
C20_Witness ==
    /\ call.fn = "normalize_text"
    /\ Len(input_text) = 4 /\ Len(call.normalized) = 3
    /\ input_text[2] \in {"tab", "nbsp"} /\ input_text[3] \in {" ", "nbsp"}
    /\ input_text[2] # input_text[3]
    /\ call.normalized[2] = " "

\* the normalized texts a and b are equal, or equal once their spaces are
\* removed
EqualNormalized(a, b) ==
    \/ normalize_text(a) = normalize_text(b)
    \/ remove_spaces(normalize_text(a)) = remove_spaces(normalize_text(b))

\* C19: a CAPITAL answer matches if and only if the normalized answer equals
\* the normalized capital or the two are equal after removing all spaces;
\* the argument max_distance has no effect on the result.
C19_CapitalExact ==
    call.fn = "are_strings_similar"
    => /\ call.matched <=> EqualNormalized(input_text, country_obj.capital)
       /\ \A d \in 0..DefaultMaxDistance :
             are_strings_similar(input_text, country_obj.capital, d)
                = call.matched

\* an answer one letter short of the capital has been rejected with the
\* default max_distance
C19_Witness ==
    /\ call.fn = "are_strings_similar"
    /\ call.max_distance = DefaultMaxDistance
    /\ ~call.matched
    /\ LET cap == normalize_text(country_obj.capital)
       IN /\ Len(cap) > 1
          /\ normalize_text(input_text) = SubSeq(cap, 1, Len(cap) - 1)

\* C16 as stated: for every language, a NAME or CAPITAL answer that equals
\* the canonical field after normalization, or after also removing the
\* spaces, matches.
C16_Claim ==
    /\ (call.fn = "check_name_match"
        /\ EqualNormalized(input_text, country_obj.name)) => call.matched
    /\ (call.fn = "are_strings_similar"
        /\ EqualNormalized(input_text, country_obj.capital)) => call.matched

\* the NAME answers rejected before any comparison: under EN, those holding
\* one of the accented letters of Spanish
AccentRejected == CURRENT_LANGUAGE = "EN" /\ has_spanish_accents(input_text)

\* C16 (amended): a CAPITAL answer that equals the capital after
\* normalization, or after also removing the spaces, matches in every
\* language; so does a NAME answer that equals the name in that way, unless
\* EN is active and the answer as typed holds one of the accented letters of
\* Spanish: such a NAME answer never matches.
C16_EqualityMatches ==
    /\ (call.fn = "are_strings_similar"
        /\ EqualNormalized(input_text, country_obj.capital)) => call.matched
    /\ (call.fn = "check_name_match" /\ ~AccentRejected
        /\ EqualNormalized(input_text, country_obj.name)) => call.matched
    /\ (call.fn = "check_name_match" /\ AccentRejected) => ~call.matched

\* under EN a NAME answer differing from the name in case and spaces only has
\* matched
C16_Witness ==
    /\ call.fn = "check_name_match" /\ call.matched
    /\ CURRENT_LANGUAGE = "EN"
    /\ input_text # country_obj.name
    /\ normalize_text(input_text) # normalize_text(country_obj.name)
    /\ remove_spaces(normalize_text(input_text))
          = remove_spaces(normalize_text(country_obj.name))

\* the aliases of lang for iso_code as check_name_match compares them:
\* normalized and without spaces
NormAliases(lang, iso_code) ==
    {remove_spaces(normalize_text(a)) : a \in LANGUAGE_ALIASES(lang, iso_code)}

\* the answer is an alias of the country in some other language and not in
\* the active one
AliasOnlyElsewhere ==
    LET a == remove_spaces(normalize_text(input_text))
    IN /\ a \notin NormAliases(CURRENT_LANGUAGE, country_obj.iso_code)
       /\ \E A \in Range(LanguageCodes) \ {CURRENT_LANGUAGE} :
             a \in NormAliases(A, country_obj.iso_code)

MatchesByOwnRules ==
    /\ ~AccentRejected
    /\ \/ EqualNormalized(input_text, country_obj.name)
       \/ /\ CURRENT_LANGUAGE = "ES"
          /\ \/ normalize_text(input_text)
                   \in spanish_exceptions(country_obj.name)
             \/ \E abbr \in abbreviations_for(country_obj.name, "ES") :
                   EqualNormalized(input_text, abbr)

BlockListed ==
    CURRENT_LANGUAGE = "EN" /\ normalize_text(input_text) \in spanish_phrases

Level(s) ==
    IF s.screen # "game" THEN "menu"
    ELSE IF s.region_mode = None THEN "region"
    ELSE IF s.region_mode = "continente" /\ s.selected_continent = None
    THEN "continent"
    ELSE IF s.game_mode = None THEN "mode"
    ELSE IF s.game_mode = "capitals" /\ s.quiz_type = None THEN "quiz_type"
    ELSE "game"

\* the next shallower level of the hierarchy: game -> sub-mode selection
\* (capitals only) -> mode selection -> continent selection (regional only)
\* -> region selection -> main menu
OneLevelUp(s) ==
    IF Level(s) = "game"
    THEN (IF s.game_mode = "capitals" THEN "quiz_type" ELSE "mode")
    ELSE IF Level(s) = "quiz_type" THEN "mode"
    ELSE IF Level(s) = "mode"
    THEN (IF s.region_mode = "continente" THEN "continent" ELSE "region")
    ELSE IF Level(s) = "continent" THEN "region"
    ELSE "menu"

\* C24 (the claim as stated): every call of navigate_back moves exactly one
\* level shallower and never skips a level; from a game whose round has just
\* completed it returns to the sub-mode / mode selection.
C24_Claim ==
    [][(screen = "game" /\ Back) => Level(St)' = OneLevelUp(St)]_vars

\* the number of calls of navigate_back that take s to the main menu, or
\* fuel + 1 if fuel calls do not reach it
RECURSIVE BackCalls(_, _)
BackCalls(s, fuel) ==
    IF s.screen = "menu" THEN 0
    ELSE IF fuel = 0 THEN 1
    ELSE 1 + BackCalls(navigate_back(s), fuel - 1)

\* the longest chain of the hierarchy: game, sub-mode selection, mode
\* selection, continent selection, region selection
MaxBackCalls == 5

PassUnderWay ==
    /\ screen = "game" /\ InGame
    /\ \/ current_country # NoCountry
       \/ (round_phase = "retry" /\ countries_left # <<>>)

\* C26 (the claim as stated): in every state between the start of a pass and
\* Complete, score + |pool| + |failed pool| + (1 if an item is being asked)
\* equals total, and 0 <= score <= total.
C26_Claim ==
    PassUnderWay
    => /\ score + Len(countries_left) + Len(failed_countries)
             + (IF current_country # NoCountry THEN 1 ELSE 0)
          = total_countries
       /\ 0 <= score /\ score <= total_countries

\* the interstitial state the retry timer is armed for: RETRY pass of the
\* selected combination, nothing being asked, pool non-empty
Interstitial ==
    /\ screen = "game" /\ InGame
    /\ round_phase = "retry" /\ current_country = NoCountry
    /\ countries_left # <<>>

\* C27 (the claim as stated): the timer-triggered call of select_new_country
\* only runs in the interstitial state it was armed for, never while an item
\* is being asked and never with the Complete outcome.
C27_Claim ==
    [][(screen = "game" /\ TimerEvent)
         => /\ Interstitial
            /\ Outcome # "complete"]_vars

\* the key k names a complete combination: region, a continent when the
\* region is regional, mode, and a sub-mode when the mode is capitals
CompleteKey(k) ==
    \E rm \in RegionModes, sc \in ContinentChoices, gm \in Modes,
       qt \in QuizTypes \cup {None} :
       /\ (rm = "continente") <=> (sc # None)
       /\ (gm = "capitals") <=> (qt # None)
       /\ k = progress_key(Combination(rm, sc, gm, qt))

\* C28 (the claim as stated): every key of the store names a complete
\* combination, with a non-empty continent when the region is regional and a
\* non-empty sub-mode when the mode is capitals.
C28_Claim ==
    \A k \in DOMAIN PERSISTENT_PROGRESS : CompleteKey(k)

\* the store entry under key k differs between the two states of a step
EntryChanged(k) ==
    \/ (k \in DOMAIN PERSISTENT_PROGRESS) # (k \in DOMAIN PERSISTENT_PROGRESS')
    \/ /\ k \in DOMAIN PERSISTENT_PROGRESS
       /\ k \in DOMAIN PERSISTENT_PROGRESS'
       /\ PERSISTENT_PROGRESS[k] # PERSISTENT_PROGRESS'[k]

RetryStep ==
    \/ (Skip /\ countries_left = <<>>)
    \/ (Outcome = "retry" /\ (RoundAnswer \/ RoundTimer))
FinalScore == IF RoundAnswer THEN score + 1 ELSE score

\* C25: if every item asked is eventually answered correctly after finitely
\* many skips and the armed retry timer eventually fires, a pass under way
\* leads to the Complete outcome (unless the player navigates away from the
\* game); the total of each RETRY pass is no larger than the total of the
\* pass before it, and smaller when an item of that pass was answered
\* correctly.
C25_Terminates ==
    /\ PassUnderWay ~> (Completed \/ Level(St) # "game")
    /\ [][RetryStep => /\ total_countries' <= total_countries
                       /\ FinalScore > 0
                            => total_countries' < total_countries]_vars

\* a round completed by a RETRY pass after the other events have been used up
C25_Witness ==
    /\ Completed /\ events = MaxRoundEvents
    /\ message = "congrats_all"
    /\ total_countries < NumCountries

\* a game mode is entered: the flags button, or a sub-mode button of the
\* capitals mode (both call _load_progress and then start_new_game)
EnterMode == ChooseFlags \/ ChooseQuizType

\* C21 (the claim as stated): when the working set is empty, entering a game
\* mode starts no round: no item is drawn, no completion message is shown and
\* the stopwatch is not started.
C21_Claim ==
    [][(EnterMode /\ WorkingSet = {})
         => /\ current_country' = NoCountry
            /\ message' \notin {"congrats_all", "congrats_completed"}
            /\ chrono_start' = chrono_start
            /\ ~chrono_running']_vars

\* the catalog variables hold what load_countries_for_language builds for
\* the active UI language
ActiveCatalog == CatalogLoaded(language, missing_files)

\* the items a snapshot of the store holds
SnapshotItems(snap) ==
    (IF snap.current_country = NoCountry THEN {} ELSE {snap.current_country})
        \cup Range(snap.countries_left) \cup Range(snap.failed_countries)

\* C22: the item asked, the items of the pool and of the failed pool, and the
\* items of every snapshot of the store are names of the catalog loaded for
\* the active language, whatever rounds, navigation and language switches
\* came before.
C22_ItemsInCatalog ==
    /\ ActiveCatalog
    /\ current_country \in Range(COUNTRIES) \cup {NoCountry}
    /\ Range(countries_left) \subseteq Range(COUNTRIES)
    /\ Range(failed_countries) \subseteq Range(COUNTRIES)
    /\ \A k \in DOMAIN PERSISTENT_PROGRESS :
          SnapshotItems(PERSISTENT_PROGRESS[k]) \subseteq Range(COUNTRIES)

\* C22 witness: after a language switch a round with an item asked, a pending
\* item and a failed item is under way, and the store holds the snapshot of
\* another round played since the switch
C22_Witness ==
    /\ screen = "game" /\ language # "ES"
    /\ current_country # NoCountry
    /\ countries_left # <<>> /\ failed_countries # <<>>
    /\ \E k \in DOMAIN PERSISTENT_PROGRESS :
          /\ k # progress_key(St)
          /\ SnapshotItems(PERSISTENT_PROGRESS[k]) # {}

\* the last call was load_countries_for_language with an unsupported code
FellBack ==
    /\ call.fn = "load_countries_for_language"
    /\ call.code \notin LANG_FILES

\* the last call was load_countries_for_language with a supported code whose
\* catalog file is absent
SourceMissing ==
    /\ call.fn = "load_countries_for_language"
    /\ call.code \in LANG_FILES /\ call.code \in missing_files

\* C23: load_countries_for_language never raises; with an unsupported code it
\* loads the ES catalog and leaves ES the active language, so that Country
\* objects get the ES abbreviations; with a supported code whose file is
\* absent it leaves COUNTRIES, CAPITALS and COUNTRIES_BY_CONTINENT empty.
C23_LoadFallback ==
    [][LoadLanguage
         => /\ ~call'.raised
            /\ FellBack'
                 => /\ CURRENT_LANGUAGE' = "ES"
                    /\ COUNTRIES' = (IF "ES" \in missing_files THEN <<>>
                                     ELSE FileRows("ES"))
                    /\ \A n \in Range(COUNTRIES') :
                          CAPITALS'[CapitalOf(n)] = n
                    /\ \A r \in CatalogRows :
                          Country(r, CURRENT_LANGUAGE') = Country(r, "ES")
            /\ SourceMissing'
                 => /\ CURRENT_LANGUAGE' = call'.code
                    /\ Len(COUNTRIES') = 0
                    /\ DOMAIN CAPITALS' = {}
                    /\ DOMAIN COUNTRIES_BY_CONTINENT' = {}]_vars

\* C23 witness: a call with an unsupported code made while another language
\* was active has loaded the ES catalog, and the file of some other language
\* is absent
C23_Witness ==
    /\ FellBack /\ events >= 2
    /\ CURRENT_LANGUAGE = "ES" /\ COUNTRIES = FileRows("ES")
    /\ missing_files # {}

====
